---- MODULE Spec2Model ----
(***************************************************************************)
(* gic_sec Adventure (src/main.js): the scene sequence of the Phaser       *)
(* presentation, the shared gameState, the overlays created by             *)
(* createOverlay and the per-scene gating of the "Next" buttons.           *)
(*                                                                         *)
(* Phaser constructs every scene object once, when the game is created     *)
(* (config.scene, main.js:966); scene.start(key) shuts the running scene   *)
(* down (its display list, and so its overlays, are destroyed) and runs    *)
(* create() of the target again on the SAME object.  Fields assigned in a  *)
(* constructor are therefore written once per page load, fields assigned   *)
(* in create() once per entry of the scene.                                *)
(***************************************************************************)
EXTENDS Integers, Sequences, FiniteSets

\* ------------------------------------------------------------------ bounds
\* Presses of SPACE counted per visit of NapiScene.
MaxPresses == 22
\* "Play Again" clicks counted per page load.
MaxReplays == 2

\* --------------------------------------------------- IEEE-754 binary64
\* buildProgress and progressBar.width are JavaScript numbers.  All values
\* that occur are non-negative multiples of 2^-57 below 2^5 (progress) or of
\* 2^-53 below 2^9 (width), so a number is held exactly as three limbs
\* <<a2, a1, a0>> of 20 bits, a2 * 2^40 + a1 * 2^20 + a0, counted in that unit.
Base == 2^20

Norm(c2, c1, c0) ==
    LET k0 == c0 \div Base
        k1 == (c1 + k0) \div Base
    IN  << c2 + k1, (c1 + k0) % Base, c0 % Base >>

AddExact(x, y) == Norm(x[1] + y[1], x[2] + y[2], x[3] + y[3])

MulExact(n, x) == Norm(n * x[1], n * x[2], n * x[3])

Less(x, y) ==
    \/ x[1] < y[1]
    \/ x[1] = y[1] /\ x[2] < y[2]
    \/ x[1] = y[1] /\ x[2] = y[2] /\ x[3] < y[3]

\* Spacing of binary64 numbers around x, in the unit of the limbs: a 53-bit
\* significand holds x exactly as long as a2 < 2^13.
RECURSIVE Spacing(_)
Spacing(a2) == IF a2 < 2^13 THEN 1 ELSE 2 * Spacing(a2 \div 2)

\* Round to nearest, ties to even: the result of every binary64 operation.
RoundNearestEven(x) ==
    LET ulp == Spacing(x[1])
        q   == x[3] \div ulp
        r   == x[3] % ulp
        up  == IF 2 * r > ulp \/ (2 * r = ulp /\ q % 2 = 1) THEN 1 ELSE 0
    IN  Norm(x[1], x[2], (q + up) * ulp)

\* x + y and n * x as JavaScript evaluates them.
NumAdd(x, y) == RoundNearestEven(AddExact(x, y))
NumMul(n, x) == RoundNearestEven(MulExact(n, x))
\* Math.min(x, y)
MathMin(x, y) == IF Less(y, x) THEN y ELSE x

\* The literals of NapiScene, in units of 2^-57:
\* 0, 1 and the binary64 nearest to 0.05 (= 7205759403792794 * 2^-57).
Zero == << 0, 0, 0 >>
One == << 2^17, 0, 0 >>
ProgressStep == << 6553, 629145, 629146 >>
\* 400 * p, in units of 2^-53 = 16 * 2^-57: 400 * p = 16 * (25 * p), and
\* rounding commutes with the scaling by 16.
BarWidth(p) == NumMul(25, p)

\* ------------------------------------------------------------ the scenes
BenefitKeys == {"performance", "memory", "concurrency", "lowlevel", "integration"}
StationKeys == {"jwt", "password", "hashing", "random"}
\* The stations whose run() returns a Promise (an async function).
AsyncStations == {"hashing"}
\* BuildScene.steps, by title; signpost idx (0-based) shows steps[idx + 1].
steps ==
    << "Initialise a package", "Install napi-rs CLI", "Add the Rust crate",
       "Build the addon", "Link in package.json", "Install dependencies" >>
SignIndexes == 0 .. (Len(steps) - 1)
StepTitles == {steps[i] : i \in 1 .. Len(steps)}
NapiOverlay == "napi-rs"

GatedScenes == {"BenefitScene", "NapiScene", "BuildScene", "ExampleScene"}
Scenes == {"BootScene", "TitleScene", "ConclusionScene"} \cup GatedScenes

\* An overlay is named by its content; Owner is the scene it was created on.
OverlayIds == BenefitKeys \cup {NapiOverlay} \cup StepTitles \cup StationKeys
Owner(id) ==
    IF id \in BenefitKeys THEN "BenefitScene"
    ELSE IF id = NapiOverlay THEN "NapiScene"
    ELSE IF id \in StepTitles THEN "BuildScene"
    ELSE "ExampleScene"

VARIABLES
    scene,              \* key of the running scene
    robotAnims,         \* outcome of loading robot_platformer_animations.json
    cryptoSubtle,       \* whether crypto.subtle exists (secure context only)
    benefitsCollected,  \* gameState.benefitsCollected: key -> true
    examplesVisited,    \* gameState.examplesVisited: key -> true
    benefits,           \* BenefitScene.benefits: the items not yet destroyed
    nextButton,         \* nextButton.visible of each gated scene
    buildProgress,      \* NapiScene.buildProgress
    overlayShown,       \* NapiScene.overlayShown (undefined read as FALSE)
    progressBarWidth,   \* NapiScene.progressBar.width
    stepIndex,          \* BuildScene.stepIndex
    hashPending,        \* promises of station.run() not yet settled
    overlays,           \* open overlays: id -> how many are on screen
    shown,              \* history: createOverlay calls per id since the
                        \* owner's last create()
    presses,            \* history: SPACE presses since NapiScene's last create()
    signsInOrder,       \* history: how many of the signposts 0, 1, 2, ... have
                        \* been touched in that order since BuildScene's last
                        \* create()
    replays,            \* history: "Play Again" clicks
    last                \* history: the handler that ran last

gameVars ==
    << scene, robotAnims, cryptoSubtle, benefitsCollected, examplesVisited, benefits,
       nextButton, buildProgress, overlayShown, progressBarWidth, stepIndex,
       hashPending, overlays >>
vars ==
    << scene, robotAnims, cryptoSubtle, benefitsCollected, examplesVisited, benefits,
       nextButton, buildProgress, overlayShown, progressBarWidth, stepIndex,
       hashPending, overlays, shown, presses, signsInOrder, replays, last >>

\* A JavaScript object used as a set of flags: obj[k] is truthy iff k was set.
EmptyObject == << >>
Truthy(obj, k) == k \in DOMAIN obj /\ obj[k]
\* Mutant of SetTrue: the object is replaced by one holding only the new key.
SetTrue_Replaces(obj, k) == [j \in {k} |-> TRUE]

SetTrue(obj, k) == [j \in DOMAIN obj \cup {k} |-> TRUE]

Handler(op, key, idx) == [op |-> op, key |-> key, idx |-> idx]

\* ------------------------------------------------------------------ Init
\* The state after `new Phaser.Game(config)`: the constructors have run,
\* BootScene is running and its preload has finished one way or the other;
\* the page is a secure context (https, localhost) or not (plain http).
Init ==
    /\ scene = "BootScene"
    /\ robotAnims \in {"loaded", "missing"}
    /\ cryptoSubtle \in {"available", "undefined"}
    /\ benefitsCollected = EmptyObject
    /\ examplesVisited = EmptyObject
    /\ benefits = {}
    /\ nextButton = [s \in GatedScenes |-> FALSE]
    /\ buildProgress = Zero
    /\ overlayShown = FALSE
    /\ progressBarWidth = Zero
    /\ stepIndex = 0
    /\ hashPending = [k \in AsyncStations |-> 0]
    /\ overlays = [id \in OverlayIds |-> 0]
    /\ shown = [id \in OverlayIds |-> 0]
    /\ presses = 0
    /\ signsInOrder = 0
    /\ replays = 0
    /\ last = Handler("init", "", -1)

\* ---------------------------------------------------------- the sequencer
\* Mutant of Successor: the benefit stage's control starts the build-steps
\* stage, skipping the bridge.
Successor_SkipsBridge(s) ==
    CASE s = "BootScene"       -> "TitleScene"
      [] s = "TitleScene"      -> "BenefitScene"
      [] s = "BenefitScene"    -> "BuildScene"
      [] s = "NapiScene"       -> "BuildScene"
      [] s = "BuildScene"      -> "ExampleScene"
      [] s = "ExampleScene"    -> "ConclusionScene"
      [] s = "ConclusionScene" -> "TitleScene"

\* The target of scene.start in each scene's button handler.
Successor(s) ==
    CASE s = "BootScene"       -> "TitleScene"
      [] s = "TitleScene"      -> "BenefitScene"
      [] s = "BenefitScene"    -> "NapiScene"
      [] s = "NapiScene"       -> "BuildScene"
      [] s = "BuildScene"      -> "ExampleScene"
      [] s = "ExampleScene"    -> "ConclusionScene"
      [] s = "ConclusionScene" -> "TitleScene"

\* scene.start(to) called by the running scene `from`: `from` is shut down,
\* which destroys its game objects (the overlays among them), and create()
\* of `to` runs on the scene object built at startup.  create() makes a new,
\* hidden nextButton, new benefit items and an empty progress bar; it
\* assigns neither buildProgress, overlayShown nor stepIndex.
StartScene(from, to) ==
    /\ scene' = to
    /\ overlays' = [id \in OverlayIds |->
                        IF Owner(id) = from THEN 0 ELSE overlays[id]]
    /\ nextButton' = IF to \in GatedScenes
                     THEN [nextButton EXCEPT ![to] = FALSE]
                     ELSE nextButton
    /\ benefits' = IF to = "BenefitScene" THEN BenefitKeys
                   ELSE IF from = "BenefitScene" THEN {} ELSE benefits
    /\ progressBarWidth' = IF to = "NapiScene" THEN Zero ELSE progressBarWidth
    /\ shown' = [id \in OverlayIds |-> IF Owner(id) = to THEN 0 ELSE shown[id]]
    /\ presses' = IF to = "NapiScene" THEN 0 ELSE presses
    /\ signsInOrder' = IF to = "BuildScene" THEN 0 ELSE signsInOrder

\* createOverlay(scene, content): one more panel of that content on screen.
\* Nothing in it is interactive but its Close button, and it pauses neither
\* the physics nor the keyboard of the scene.
CreateOverlay(id) ==
    /\ overlays' = [overlays EXCEPT ![id] = @ + 1]
    /\ shown' = [shown EXCEPT ![id] = @ + 1]

\* BootScene.create: reads the animation definitions, then starts the title.
\* With the JSON missing, cache.json.get returns undefined and reading
\* `.anims` of it throws before scene.start is reached: nothing runs again.
BootCreate ==
    /\ scene = "BootScene"
    /\ robotAnims = "loaded"
    /\ StartScene("BootScene", Successor("BootScene"))
    /\ last' = Handler("BootScene.create", "", -1)
    /\ UNCHANGED << robotAnims, cryptoSubtle, benefitsCollected, examplesVisited,
                    buildProgress, overlayShown, stepIndex, hashPending,
                    replays >>

\* TitleScene: playButton 'pointerdown'.
TitlePlay ==
    /\ scene = "TitleScene"
    /\ StartScene("TitleScene", Successor("TitleScene"))
    /\ last' = Handler("playButton", "", -1)
    /\ UNCHANGED << robotAnims, cryptoSubtle, benefitsCollected, examplesVisited,
                    buildProgress, overlayShown, stepIndex, hashPending,
                    replays >>

\* nextButton 'pointerdown' of a gated scene.  Phaser delivers pointer
\* events only to game objects that render, so a hidden button is inert.
NextClick(s) ==
    /\ scene = s
    /\ nextButton[s]
    /\ StartScene(s, Successor(s))
    /\ last' = Handler("nextButton", s, -1)
    /\ UNCHANGED << robotAnims, cryptoSubtle, benefitsCollected, examplesVisited,
                    buildProgress, overlayShown, stepIndex, hashPending,
                    replays >>

\* Mutant of ResetExamples: the handler forgets examplesVisited.
ResetExamples_Kept == examplesVisited

\* The two assignments of the exitButton handler.
ResetBenefits == EmptyObject
ResetExamples == EmptyObject

\* ConclusionScene: exitButton ('Play Again') 'pointerdown'.
PlayAgain ==
    /\ scene = "ConclusionScene"
    /\ replays < MaxReplays
    /\ benefitsCollected' = ResetBenefits
    /\ examplesVisited' = ResetExamples
    /\ StartScene("ConclusionScene", Successor("ConclusionScene"))
    /\ replays' = replays + 1
    /\ last' = Handler("exitButton", "", -1)
    /\ UNCHANGED << robotAnims, cryptoSubtle, buildProgress, overlayShown, stepIndex,
                    hashPending >>

\* ----------------------------------------------------------- BenefitScene
\* Mutant of AlreadyCollected: the early return is missing.
AlreadyCollected_Never(k) == FALSE

\* collectBenefit's early return.
AlreadyCollected(k) == Truthy(benefitsCollected, k)

\* Mutant of AllCollected: `some` where the code says `every`.
AllCollected_Some == \E k \in BenefitKeys : Truthy(benefitsCollected, k)

\* The check made when a benefit overlay closes.
AllCollected == \A k \in BenefitKeys : Truthy(benefitsCollected, k)

\* collectBenefit(player, item), the overlap callback of the benefit items,
\* for the item whose benefitKey is k.
CollectBenefit(k) ==
    /\ scene = "BenefitScene"
    /\ last' = Handler("collectBenefit", k, -1)
    /\ IF AlreadyCollected(k)
       THEN UNCHANGED << benefitsCollected, benefits, overlays, shown >>
       ELSE /\ benefitsCollected' = SetTrue(benefitsCollected, k)
            /\ benefits' = benefits \ {k}
            /\ CreateOverlay(k)
    /\ UNCHANGED << scene, robotAnims, cryptoSubtle, examplesVisited, nextButton,
                    buildProgress, overlayShown, progressBarWidth, stepIndex,
                    hashPending, presses, signsInOrder, replays >>

\* ------------------------------------------------------------- NapiScene
\* buildProgress after one more press: Math.min(1, buildProgress + 0.05).
Advance(p) == MathMin(One, NumAdd(p, ProgressStep))

\* Mutant of BridgeComplete: `>` where the code says `>=`.
BridgeComplete_Strict(p) == Less(One, p) /\ ~overlayShown

\* The condition under which update() presents the napi-rs overlay, on the
\* progress p just computed.
BridgeComplete(p) == ~Less(p, One) /\ ~overlayShown

\* update() on a frame where SPACE has just gone down.
PressSpace ==
    /\ scene = "NapiScene"
    /\ presses < MaxPresses
    /\ buildProgress' = Advance(buildProgress)
    /\ progressBarWidth' = BarWidth(buildProgress')
    /\ IF BridgeComplete(buildProgress')
       THEN /\ overlayShown' = TRUE
            /\ CreateOverlay(NapiOverlay)
       ELSE UNCHANGED << overlayShown, overlays, shown >>
    /\ presses' = presses + 1
    /\ last' = Handler("update", "SPACE", -1)
    /\ UNCHANGED << scene, robotAnims, cryptoSubtle, benefitsCollected, examplesVisited,
                    benefits, nextButton, stepIndex, hashPending, signsInOrder,
                    replays >>

\* ------------------------------------------------------------ BuildScene
\* Mutant of AtCurrentStep: `>=` where the code says `===`.
AtCurrentStep_OrLater(idx) == idx >= stepIndex

\* reachSign's guard, for the signpost whose stepIndex is idx.
AtCurrentStep(idx) == idx = stepIndex

\* Mutant of AllStepsDone: off by one, the last step is not waited for.
AllStepsDone_OneEarly == stepIndex >= Len(steps) - 1

\* The check made when a step overlay closes.
AllStepsDone == stepIndex >= Len(steps)

\* reachSign(player, sign), the overlap callback of the signposts.
ReachSign(idx) ==
    /\ scene = "BuildScene"
    /\ last' = Handler("reachSign", "", idx)
    /\ IF AtCurrentStep(idx)
       THEN /\ stepIndex' = stepIndex + 1
            /\ CreateOverlay(steps[stepIndex + 1])
       ELSE UNCHANGED << stepIndex, overlays, shown >>
    /\ signsInOrder' = IF idx = signsInOrder THEN signsInOrder + 1
                       ELSE signsInOrder
    /\ UNCHANGED << scene, robotAnims, cryptoSubtle, benefitsCollected, examplesVisited,
                    benefits, nextButton, buildProgress, overlayShown,
                    progressBarWidth, hashPending, presses, replays >>

\* ---------------------------------------------------------- ExampleScene
\* Mutant of AlreadyVisited: the early return is missing.
AlreadyVisited_Never(k) == FALSE

\* visitStation's early return.
AlreadyVisited(k) == Truthy(examplesVisited, k)

\* Mutant of AllVisited: `some` where the code says `every`.
AllVisited_Some == \E k \in StationKeys : Truthy(examplesVisited, k)

\* The check made when a station overlay closes.
AllVisited == \A k \in StationKeys : Truthy(examplesVisited, k)

\* visitStation(player, stationBody), the overlap callback of the stations.
\* A synchronous run() is shown at once; the Promise of an async run() is
\* left to settle.
VisitStation(k) ==
    /\ scene = "ExampleScene"
    /\ last' = Handler("visitStation", k, -1)
    /\ IF AlreadyVisited(k)
       THEN UNCHANGED << examplesVisited, hashPending, overlays, shown >>
       ELSE /\ examplesVisited' = SetTrue(examplesVisited, k)
            /\ IF k \in AsyncStations
               THEN /\ hashPending' = [hashPending EXCEPT ![k] = @ + 1]
                    /\ UNCHANGED << overlays, shown >>
               ELSE /\ CreateOverlay(k)
                    /\ UNCHANGED hashPending
    /\ UNCHANGED << scene, robotAnims, cryptoSubtle, benefitsCollected,
                    benefits, nextButton, buildProgress, overlayShown,
                    progressBarWidth, stepIndex, presses, signsInOrder,
                    replays >>

\* A variant that marks the station visited when its Promise fulfils.
RunSettled_MarksVisited(k) ==
    /\ hashPending[k] > 0
    /\ cryptoSubtle = "available"
    /\ hashPending' = [hashPending EXCEPT ![k] = @ - 1]
    /\ examplesVisited' = SetTrue(examplesVisited, k)
    /\ CreateOverlay(k)
    /\ last' = Handler("showOverlay", k, -1)
    /\ UNCHANGED << scene, robotAnims, cryptoSubtle, benefitsCollected,
                    benefits, nextButton, buildProgress, overlayShown,
                    progressBarWidth, stepIndex, presses, signsInOrder,
                    replays >>

\* result.then(showOverlay): the Promise of an async run() fulfils, whatever
\* scene is running by then, and showOverlay creates the overlay on the
\* ExampleScene object.  The digest of a literal does not fail where
\* crypto.subtle exists.
RunSettled(k) ==
    /\ hashPending[k] > 0
    /\ cryptoSubtle = "available"
    /\ hashPending' = [hashPending EXCEPT ![k] = @ - 1]
    /\ CreateOverlay(k)
    /\ last' = Handler("showOverlay", k, -1)
    /\ UNCHANGED << scene, robotAnims, cryptoSubtle, benefitsCollected, examplesVisited,
                    benefits, nextButton, buildProgress, overlayShown,
                    progressBarWidth, stepIndex, presses, signsInOrder,
                    replays >>

\* The Promise of an async run() rejects: on a page that is not a secure
\* context crypto.subtle is undefined and `crypto.subtle.digest` throws
\* inside the async function.  result.then(showOverlay) has no rejection
\* handler, so nothing runs.
RunRejected(k) ==
    /\ hashPending[k] > 0
    /\ cryptoSubtle = "undefined"
    /\ hashPending' = [hashPending EXCEPT ![k] = @ - 1]
    /\ last' = Handler("run rejected", k, -1)
    /\ UNCHANGED << scene, robotAnims, cryptoSubtle, benefitsCollected,
                    examplesVisited, benefits, nextButton, buildProgress,
                    overlayShown, progressBarWidth, stepIndex, overlays,
                    shown, presses, signsInOrder, replays >>

\* ------------------------------------------------------ closing an overlay
\* Mutant of Unlocks: every continuation reveals the button unconditionally.
Unlocks_Always(s) == TRUE

\* What the continuation attached to createOverlay's promise decides, by
\* scene: whether to make the scene's nextButton visible.
Unlocks(s) ==
    CASE s = "BenefitScene" -> AllCollected
      [] s = "NapiScene"    -> TRUE
      [] s = "BuildScene"   -> AllStepsDone
      [] s = "ExampleScene" -> AllVisited

\* The Close button of an open overlay: the overlay is destroyed, the
\* promise resolves and the continuation runs before any other event.  Only
\* the running scene takes pointer input.
CloseOverlay(id) ==
    /\ scene = Owner(id)
    /\ overlays[id] > 0
    /\ overlays' = [overlays EXCEPT ![id] = @ - 1]
    /\ nextButton' = IF Unlocks(scene)
                     THEN [nextButton EXCEPT ![scene] = TRUE]
                     ELSE nextButton
    /\ last' = Handler("Close", id, -1)
    /\ UNCHANGED << scene, robotAnims, cryptoSubtle, benefitsCollected, examplesVisited,
                    benefits, buildProgress, overlayShown, progressBarWidth,
                    stepIndex, hashPending, shown, presses, signsInOrder,
                    replays >>

\* --------------------------------------------------------------- the game
Next ==
    \/ BootCreate
    \/ TitlePlay
    \/ \E k \in BenefitKeys : CollectBenefit(k)
    \/ PressSpace
    \/ \E idx \in SignIndexes : ReachSign(idx)
    \/ \E k \in StationKeys : VisitStation(k)
    \/ \E k \in AsyncStations : RunSettled(k)
    \/ \E k \in AsyncStations : RunRejected(k)
    \/ \E id \in OverlayIds : CloseOverlay(id)
    \/ \E s \in GatedScenes : NextClick(s)
    \/ PlayAgain

Spec == Init /\ [][Next]_vars

\* ============================================================ properties
\* Helpers of the properties below (they read the state, never the
\* operators of the handlers).
RECURSIVE Total(_, _)
Total(f, S) ==
    IF S = {} THEN 0
    ELSE LET x == CHOOSE y \in S : TRUE IN f[x] + Total(f, S \ {x})

AllTrue(obj, keys) == \A k \in keys : k \in DOMAIN obj /\ obj[k] = TRUE

\* |x - y| <= tol, on limbs.
Near(x, y, tol) == ~Less(AddExact(y, tol), x) /\ ~Less(AddExact(x, tol), y)

\* ---------------------------------------------------------------- C1
\* C1 as stated: in the benefit stage the Next control is visible if and
\* only if all five benefit keys are true in benefitsCollected, in every
\* reachable state of the stage.
C1_NextIffAllCollected ==
    scene = "BenefitScene" =>
        (nextButton["BenefitScene"] <=> AllTrue(benefitsCollected, BenefitKeys))

\* C1 as amended: in the benefit stage the Next control is visible only if
\* all five benefit keys are true, and it is visible whenever all five are
\* true and no benefit overlay is still open (the control is revealed when an
\* overlay is closed, not when the fifth key is collected).
C1_NextOnceAllCollectedAndClosed ==
    scene = "BenefitScene" =>
        /\ nextButton["BenefitScene"] => AllTrue(benefitsCollected, BenefitKeys)
        /\ ( /\ AllTrue(benefitsCollected, BenefitKeys)
             /\ \A k \in BenefitKeys : overlays[k] = 0 )
           => nextButton["BenefitScene"]

\* The fifth overlay has just been closed and the control is revealed.
C1_Witness ==
    /\ scene = "BenefitScene"
    /\ last.op = "Close"
    /\ AllTrue(benefitsCollected, BenefitKeys)
    /\ \A k \in BenefitKeys : overlays[k] = 0
    /\ nextButton["BenefitScene"]

\* ---------------------------------------------------------------- C2
\* C2: immediately after the replay action on the conclusion stage, both
\* session mappings are empty and the title stage is the running stage,
\* whatever came before.
C2_ReplayResetsSession ==
    last.op = "exitButton" =>
        /\ benefitsCollected = << >>
        /\ examplesVisited = << >>
        /\ scene = "TitleScene"

\* A replay has just happened (after a play-through that set every key).
C2_Witness ==
    /\ last.op = "exitButton"
    /\ replays = 1
    /\ DOMAIN benefitsCollected = {}
    /\ DOMAIN examplesVisited = {}

\* ---------------------------------------------------------------- C3
\* C3: whenever the bridge-building stage is entered its progress counter is
\* 0 and its overlay-shown flag is unset, and whenever the build-steps stage
\* is entered its step index is 0, after a replay as on the first
\* play-through.
C3_StagesStartFresh ==
    /\ (scene = "NapiScene" /\ last.op = "nextButton") =>
            (buildProgress = << 0, 0, 0 >> /\ ~overlayShown)
    /\ (scene = "BuildScene" /\ last.op = "nextButton") => stepIndex = 0

\* ---------------------------------------------------------------- C4
\* C4: a gated stage is left only by its advance control, only while that
\* control is visible and only when the stage's completion predicate is
\* true; nothing else changes the running stage of a gated stage.
C4_ExitOnlyByUnlockedControl ==
    [][ (scene \in GatedScenes /\ scene' # scene) =>
          /\ last'.op = "nextButton"
          /\ last'.key = scene
          /\ nextButton[scene]
          /\ CASE scene = "BenefitScene" -> AllTrue(benefitsCollected, BenefitKeys)
               [] scene = "NapiScene"    -> ~Less(buildProgress, << 2^17, 0, 0 >>)
               [] scene = "BuildScene"   -> stepIndex = Len(steps)
               [] scene = "ExampleScene" -> AllTrue(examplesVisited, StationKeys)
      ]_vars

\* The last gated stage has just been left through its control.
C4_Witness ==
    /\ last.op = "nextButton"
    /\ last.key = "ExampleScene"
    /\ scene = "ConclusionScene"

\* ---------------------------------------------------------------- C5
\* C5: every change of stage goes to the immediate successor in the order
\* title, benefit, bridge-building, build-steps, example-stations,
\* conclusion (the title being entered first from boot); the only way back
\* to the title is the replay from the conclusion.
C5_LinearForwardOnly ==
    [][ scene' # scene =>
          /\ << scene, scene' >> \in
                { << "BootScene", "TitleScene" >>,
                  << "TitleScene", "BenefitScene" >>,
                  << "BenefitScene", "NapiScene" >>,
                  << "NapiScene", "BuildScene" >>,
                  << "BuildScene", "ExampleScene" >>,
                  << "ExampleScene", "ConclusionScene" >>,
                  << "ConclusionScene", "TitleScene" >> }
          /\ (scene = "ConclusionScene") => last'.op = "exitButton"
      ]_vars

\* The whole sequence has been walked and the replay has led back to the
\* title.
C5_Witness == scene = "TitleScene" /\ replays = 1 /\ last.op = "exitButton"

\* ---------------------------------------------------------------- C6
\* C6: in the benefit stage a trigger for a key that is already true in
\* benefitsCollected changes no state and presents no overlay, and at every
\* moment the number of overlays presented equals the number of distinct
\* keys collected.
C6_EachBenefitOnce ==
    /\ [](scene = "BenefitScene" =>
            /\ Total(shown, BenefitKeys) = Cardinality(DOMAIN benefitsCollected)
            /\ \A k \in BenefitKeys : shown[k] <= 1)
    /\ [][ ( /\ last'.op = "collectBenefit"
             /\ last'.key \in DOMAIN benefitsCollected
             /\ benefitsCollected[last'.key] = TRUE )
           => UNCHANGED << gameVars, shown >> ]_vars

\* The trigger has just fired for a key whose overlay had been presented
\* and closed before: a second trigger.
C6_Witness ==
    /\ scene = "BenefitScene"
    /\ last.op = "collectBenefit"
    /\ last.key \in DOMAIN benefitsCollected
    /\ shown[last.key] = 1
    /\ overlays[last.key] = 0

\* ---------------------------------------------------------------- C7
\* C7: in every visit of the bridge-building stage the completion overlay
\* has been presented exactly once as soon as a press has brought the
\* accumulated progress to the maximum, and not at all before that.
C7_OverlayExactlyOnceAtMax ==
    scene = "NapiScene" =>
        shown[NapiOverlay] =
            IF presses > 0 /\ ~Less(buildProgress, << 2^17, 0, 0 >>)
            THEN 1 ELSE 0

\* ---------------------------------------------------------------- C8
\* C8: in every visit of the bridge-building stage, after k presses the
\* displayed progress (the bar's width, 400 at the maximum) is that of
\* min(1, k * 0.05), i.e. min(400, 20 * k), here up to the rounding of
\* binary64 arithmetic (2^-40), and it never exceeds the maximum.
C8_ProgressIsMinOfMaxAndKS ==
    scene = "NapiScene" =>
        LET k20 == IF presses < 20 THEN 20 * presses ELSE 400
        IN  /\ Near(progressBarWidth, << k20 * 2^13, 0, 0 >>, << 0, 0, 2^13 >>)
            /\ ~Less(<< 400 * 2^13, 0, 0 >>, progressBarWidth)

\* ---------------------------------------------------------------- C9
\* C9: in the build-steps stage, touching a signpost whose index differs
\* from the current step index, a later one or a completed one, changes no
\* state and presents no overlay.
C9_OutOfOrderTouchIgnored ==
    [][ (last'.op = "reachSign" /\ last'.idx # stepIndex)
           => UNCHANGED << gameVars, shown >> ]_vars

\* A later signpost has just been touched while an earlier step is current.
C9_Witness ==
    /\ scene = "BuildScene"
    /\ last.op = "reachSign"
    /\ last.idx > stepIndex
    /\ stepIndex >= 1

\* ---------------------------------------------------------------- C10
\* C10: in every visit of the build-steps stage, touching the signposts in
\* ascending order presents one overlay per signpost touched (that step's
\* overlay, N = 6 in all), the step index counts the touches, and the
\* advance control is unlocked only after the last signpost.
C10_AscendingTouchesPresentAll ==
    scene = "BuildScene" =>
        /\ \A i \in 1 .. Len(steps) :
                shown[steps[i]] = IF i <= signsInOrder THEN 1 ELSE 0
        /\ signsInOrder > 0 => stepIndex = signsInOrder
        /\ nextButton["BuildScene"] => signsInOrder = Len(steps)

\* All six signposts have been touched in order, six overlays have been
\* presented and the control is unlocked.
C10_Witness ==
    /\ scene = "BuildScene"
    /\ signsInOrder = Len(steps)
    /\ \A i \in 1 .. Len(steps) : shown[steps[i]] = 1
    /\ nextButton["BuildScene"]

\* ---------------------------------------------------------------- C11
\* C11: in the example-stations stage, in whatever order the stations are
\* visited, the Finish control is not visible while a station is unvisited,
\* and once all four have been visited and the overlay of each has been
\* presented and dismissed, all four flags are true and Finish is visible.
C11_FinishAfterAllStations ==
    scene = "ExampleScene" =>
        /\ nextButton["ExampleScene"] => AllTrue(examplesVisited, StationKeys)
        /\ (\A k \in StationKeys :
                /\ k \in DOMAIN examplesVisited
                /\ shown[k] >= 1
                /\ overlays[k] = 0)
           => /\ AllTrue(examplesVisited, StationKeys)
              /\ nextButton["ExampleScene"]

\* The asynchronously computed hashing overlay was the last to be dismissed
\* and Finish is revealed.
C11_Witness ==
    /\ scene = "ExampleScene"
    /\ last.op = "Close"
    /\ last.key = "hashing"
    /\ \A k \in StationKeys : shown[k] = 1 /\ overlays[k] = 0
    /\ AllTrue(examplesVisited, StationKeys)
    /\ nextButton["ExampleScene"]

\* ---------------------------------------------------------------- C12
\* C12: in the example-stations stage, touching a station whose key is
\* already true in examplesVisited changes no state and presents no
\* overlay, and no station's overlay is presented more than once.
C12_EachStationOnce ==
    /\ [](\A k \in StationKeys : shown[k] <= 1)
    /\ [][ ( /\ last'.op = "visitStation"
             /\ last'.key \in DOMAIN examplesVisited
             /\ examplesVisited[last'.key] = TRUE )
           => UNCHANGED << gameVars, shown >> ]_vars

\* A station has just been touched again after its overlay was presented
\* and closed.
C12_Witness ==
    /\ scene = "ExampleScene"
    /\ last.op = "visitStation"
    /\ last.key \in DOMAIN examplesVisited
    /\ shown[last.key] = 1
    /\ overlays[last.key] = 0

\* ---------------------------------------------------------------- C13
\* C13: at most one overlay is open at any time: while one is presented
\* the scene is blocked, so no trigger is consumed and no second overlay
\* is presented before the first is dismissed.
C13_AtMostOneOverlayOpen == Total(overlays, OverlayIds) <= 1

\* ---------------------------------------------------------------- C14
\* C14: an open overlay goes away only by the user's dismissal of it, which
\* runs its continuation once; it is never closed or discarded in any other
\* way.
C14_OnlyDismissalRemovesOverlay ==
    [][ \A id \in OverlayIds :
            overlays'[id] < overlays[id] =>
                /\ last'.op = "Close"
                /\ last'.key = id
                /\ overlays'[id] = overlays[id] - 1
      ]_vars

\* ---------------------------------------------------------------- C15
\* C15: a key of benefitsCollected or examplesVisited that is true stays
\* true in every step but the replay's reset, and neither mapping ever
\* holds a key outside its fixed set.
C15_SessionMonotoneAndClosed ==
    /\ [](/\ DOMAIN benefitsCollected \subseteq BenefitKeys
          /\ DOMAIN examplesVisited \subseteq StationKeys)
    /\ [][ last'.op # "exitButton" =>
             /\ \A k \in DOMAIN benefitsCollected :
                    benefitsCollected[k] = TRUE =>
                        (k \in DOMAIN benefitsCollected'
                            /\ benefitsCollected'[k] = TRUE)
             /\ \A k \in DOMAIN examplesVisited :
                    examplesVisited[k] = TRUE =>
                        (k \in DOMAIN examplesVisited'
                            /\ examplesVisited'[k] = TRUE)
         ]_vars

\* Every key of both mappings is still true at the conclusion, stages
\* after it was set.
C15_Witness ==
    /\ scene = "ConclusionScene"
    /\ AllTrue(benefitsCollected, BenefitKeys)
    /\ AllTrue(examplesVisited, StationKeys)

\* ---------------------------------------------------------------- C16
\* C16: the end-to-end scenario is an execution (C16_Witness is its final
\* state), and its checkpoints are as the scenario says: on the first
\* play-through the bridge overlay has been presented exactly once from
\* press 20 on and not before, and the first replay comes after five
\* benefit overlays, at least 20 presses, the six signposts in order and
\* four visited stations, and leaves both mappings empty with the title
\* stage running.
C16_EndToEndScenario ==
    /\ (scene = "NapiScene" /\ replays = 0) =>
            shown[NapiOverlay] = IF presses >= 20 THEN 1 ELSE 0
    /\ (last.op = "exitButton" /\ replays = 1) =>
            /\ \A k \in BenefitKeys : shown[k] = 1
            /\ presses >= 20
            /\ shown[NapiOverlay] = 1
            /\ signsInOrder = Len(steps)
            /\ \A i \in 1 .. Len(steps) : shown[steps[i]] = 1
            /\ DOMAIN benefitsCollected = {}
            /\ DOMAIN examplesVisited = {}
            /\ scene = "TitleScene"

\* The final state of the scenario: exactly 20 presses, every overlay of
\* every stage presented once, the replay just triggered.
C16_Witness ==
    /\ last.op = "exitButton"
    /\ replays = 1
    /\ scene = "TitleScene"
    /\ presses = 20
    /\ signsInOrder = Len(steps)
    /\ \A id \in OverlayIds : shown[id] = 1 /\ overlays[id] = 0
    /\ hashPending["hashing"] = 0
    /\ DOMAIN benefitsCollected = {}
    /\ DOMAIN examplesVisited = {}

\* ---------------------------------------------------------------- C17
\* C17: a missing optional asset is never fatal: whatever the outcome of
\* loading the robot animation description, boot goes on to the title
\* stage, i.e. as long as the boot scene is running its create() can
\* start the title.
C17_BootReachesTitle == scene = "BootScene" => ENABLED BootCreate

\* ---------------------------------------------------------------- C18
\* C18: when a station's asynchronous output computation rejects, the
\* failure is surfaced in that station's overlay: the overlay is presented
\* all the same.
C18_FailedRunStillPresented ==
    last.op = "run rejected" =>
        (shown[last.key] >= 1 /\ overlays[last.key] >= 1)

\* ---------------------------------------------------------------- C19
\* The bridge scene with its advance control hidden, no overlay left to
\* close and the one-shot flag already set: update() never creates the
\* overlay again, so no user action reveals the control.
Stranded ==
    /\ scene = "NapiScene"
    /\ ~nextButton["NapiScene"]
    /\ overlays[NapiOverlay] = 0
    /\ overlayShown

\* Once stranded, stranded after every step the game can take.
StrandedForGood == [][Stranded => Stranded']_vars

\* C19: replay never strands the player: in every play-through, also after
\* a replay, the advance control of every gated stage can still be revealed
\* by user actions.
C19_ReplayNeverStrands == ~Stranded

\* ---------------------------------------------------------------- C20
\* C20: an overlay is presented only while the stage that requested it is
\* the active stage; the hashing station's overlay is never presented after
\* the example-stations stage was left.
C20_OverlayOnlyOnActiveStage ==
    \A id \in OverlayIds : overlays[id] > 0 => scene = Owner(id)

\* ---------------------------------------------------------------- C21
\* C21: session state is mutated only by the active stage: benefitsCollected
\* changes only in collectBenefit while the benefit stage is running,
\* examplesVisited only in visitStation while the example-stations stage is
\* running (replay apart, which resets both), and every other handler --
\* boot, play, next, overlay dismissal, bridge presses, signpost touches,
\* the settling of the asynchronous computation -- leaves both unchanged.
C21_SessionMutatedOnlyByActiveStage ==
    [][ /\ benefitsCollected' # benefitsCollected =>
              \/ last'.op = "exitButton"
              \/ /\ last'.op = "collectBenefit"
                 /\ scene = "BenefitScene"
                 /\ scene' = "BenefitScene"
        /\ examplesVisited' # examplesVisited =>
              \/ last'.op = "exitButton"
              \/ /\ last'.op = "visitStation"
                 /\ scene = "ExampleScene"
                 /\ scene' = "ExampleScene"
        /\ last'.op = "collectBenefit" => examplesVisited' = examplesVisited
        /\ last'.op = "visitStation" =>
              benefitsCollected' = benefitsCollected
        /\ last'.op \in {"BootScene.create", "playButton", "nextButton",
                         "Close", "update", "reachSign", "showOverlay",
                         "run rejected"} =>
              /\ benefitsCollected' = benefitsCollected
              /\ examplesVisited' = examplesVisited
      ]_vars

\* Both mappings were filled by their stages and are still whole when the
\* hashing computation settles on the conclusion stage.
C21_Witness ==
    /\ scene = "ConclusionScene"
    /\ last.op = "showOverlay"
    /\ AllTrue(benefitsCollected, BenefitKeys)
    /\ AllTrue(examplesVisited, StationKeys)

====
